---- MODULE Spec2Model ----
(***************************************************************************)
(* A model of ifad_scraper.py: the run of main(), which renders the IFAD   *)
(* careers page, extracts job records with two detection strategies,       *)
(* normalises them, and writes an RSS feed when at least one record was    *)
(* accepted.                                                               *)
(*                                                                         *)
(* Text is a sequence of one-character strings, so that strip(), lower(),  *)
(* startswith(), the `in' substring test, len() and join() are computed    *)
(* as Python computes them.  An optional value (a BeautifulSoup lookup     *)
(* that may return None, an attribute that may be missing) is a sequence   *)
(* of length 0 (None) or 1 (the value).                                    *)
(***************************************************************************)
EXTENDS Integers, Sequences, FiniteSets, TLC

(* ------------------------------ bounds -------------------------------- *)

\* The model's pages carry PeopleSoft row suffixes 0..MaxSuffix.
MaxSuffix == 2

\* The model's small anchor-only pages hold at most MaxAnchors title anchors.
MaxAnchors == 2

\* The model's large pages hold up to MAX_ELEMENTS + MaxOver candidates.
MaxOver == 2

(* --------------------------- program constants ------------------------ *)

\* job_elements[:50]
MAX_ELEMENTS == 50

\* len(job_data['title']) < 5
MIN_TITLE_LEN == 5

ORIGIN ==
    <<"h","t","t","p","s",":","/","/","j","o","b",".","i","f","a","d",".","o","r","g">>

BASE_PATH ==
    <<"h","t","t","p","s",":","/","/","j","o","b",".","i","f","a","d",".","o","r","g","/","p",
      "s","c","/","I","F","H","R","P","R","D","E","/","C","A","R","E","E","R","S","/","J","O",
      "B","S","/","c","/">>

DETAIL_URL ==
    <<"h","t","t","p","s",":","/","/","j","o","b",".","i","f","a","d",".","o","r","g","/","p",
      "s","c","/","I","F","H","R","P","R","D","E","/","C","A","R","E","E","R","S","/","J","O",
      "B","S","/","c","/","H","R","S","_","H","R","A","M","_","F","L",".","H","R","S","_","C",
      "G","_","S","E","A","R","C","H","_","F","L",".","G","B","L","?","P","a","g","e","=","H",
      "R","S","_","A","P","P","_","J","B","P","S","T","&","A","c","t","i","o","n","=","U","&",
      "F","O","C","U","S","=","A","p","p","l","i","c","a","n","t","&","S","i","t","e","I","d",
      "=","1","&","J","o","b","O","p","e","n","i","n","g","I","d","=">>

HTTP == <<"h","t","t","p">>

SLASH == <<"/">>

\* The default location, "IFAD".
IFAD == <<"I","F","A","D">>

LOCATION_LABEL == <<"L","o","c","a","t","i","o","n",":"," ">>

DEPARTMENT_LABEL == <<"D","e","p","a","r","t","m","e","n","t",":"," ">>

SEPARATOR == <<" ","|"," ">>

UNTITLED == <<"U","n","t","i","t","l","e","d"," ","P","o","s","i","t","i","o","n">>

skip_keywords ==
    << <<"s","e","a","r","c","h">>,
       <<"f","i","l","t","e","r">>,
       <<"l","o","g","i","n">>,
       <<"s","i","g","n"," ","i","n">>,
       <<"h","o","m","e">>,
       <<"a","b","o","u","t">>,
       <<"a","l","l"," ","j","o","b","s">> >>

(* ------------------------------- text --------------------------------- *)

None == <<>>

Some(x) == <<x>>

UPPER ==
    <<"A","B","C","D","E","F","G","H","I","J","K","L","M",
      "N","O","P","Q","R","S","T","U","V","W","X","Y","Z">>

LOWER ==
    <<"a","b","c","d","e","f","g","h","i","j","k","l","m",
      "n","o","p","q","r","s","t","u","v","w","x","y","z">>

WHITESPACE == {" ", "\n", "\t", "\r"}

\* str.lower() on one character.
LowerChar(c) ==
    IF \E k \in 1..Len(UPPER) : UPPER[k] = c
    THEN LOWER[CHOOSE k \in 1..Len(UPPER) : UPPER[k] = c]
    ELSE c

\* str.lower()
Lower(s) == [k \in 1..Len(s) |-> LowerChar(s[k])]

\* str.startswith(prefix)
StartsWith(s, prefix) ==
    /\ Len(prefix) <= Len(s)
    /\ SubSeq(s, 1, Len(prefix)) = prefix

\* `sub in s' on strings.
Contains(s, sub) ==
    \E k \in 0..(Len(s) - Len(sub)) : SubSeq(s, k + 1, k + Len(sub)) = sub

\* str.strip(): the text between the first and the last non-whitespace character.
Strip(s) ==
    LET keep == {k \in 1..Len(s) : s[k] \notin WHITESPACE}
    IN  IF keep = {} THEN <<>>
        ELSE SubSeq(s, CHOOSE k \in keep : \A m \in keep : k <= m,
                       CHOOSE k \in keep : \A m \in keep : k >= m)

\* Tag.get_text(strip=True) of an element holding one text node: the node is
\* stripped, and dropped when nothing is left.
GetText(raw) == Strip(raw)

\* sep.join(parts)
RECURSIVE Join(_, _)
Join(sep, parts) ==
    IF Len(parts) = 0 THEN <<>>
    ELSE IF Len(parts) = 1 THEN parts[1]
    ELSE parts[1] \o sep \o Join(sep, Tail(parts))

\* dict.get(key, default)
Get(d, key, default) == IF key \in DOMAIN d THEN d[key] ELSE default

(* --------------------------- record building -------------------------- *)

\* BuildDescription without the test against the default location.
BuildDescriptionNoDefault(title, location, department) ==
    LET description_parts ==
            <<title>>
            \o (IF location # <<>>
                THEN <<LOCATION_LABEL \o location>> ELSE <<>>)
            \o (IF department # <<>>
                THEN <<DEPARTMENT_LABEL \o department>> ELSE <<>>)
    IN  Join(SEPARATOR, description_parts)

\* The composite description of a record: title, then the location unless it
\* is empty or the default, then the department unless it is empty.
BuildDescription(title, location, department) ==
    LET description_parts ==
            <<title>>
            \o (IF location # <<>> /\ location # IFAD
                THEN <<LOCATION_LABEL \o location>> ELSE <<>>)
            \o (IF department # <<>>
                THEN <<DEPARTMENT_LABEL \o department>> ELSE <<>>)
    IN  Join(SEPARATOR, description_parts)

\* The link rule of the anchor's own href and of a nested anchor's href.
ResolveHref(href) ==
    IF StartsWith(href, HTTP) THEN href
    ELSE IF StartsWith(href, SLASH) THEN ORIGIN \o href
    ELSE BASE_PATH \o href

\* The link rule of an href taken from the nearest ancestor row.
ResolveRowHref(href) ==
    IF StartsWith(href, HTTP) THEN href
    ELSE ORIGIN \o href

\* The outcome of one loop iteration: a record to append, or nothing.
Skip == [accepted |-> FALSE]

Accept(job_data) == [accepted |-> TRUE, job |-> job_data]

\* soup.find('span', attrs={'id': f'{marker}${job_idx}'}) over the spans of one
\* marker, held by suffix.
Find(spans, job_idx) == IF job_idx \in DOMAIN spans THEN spans[job_idx] ELSE None

\* Strategy 2 is skipped once Strategy 1 has filled job_elements.
Strategy2Runs(elements) == elements = <<>>

\* One iteration of the loop on a dict element of Strategy 1.
ProcessIndexed(element, soup) ==
    LET job_idx    == element.index
        title_elem == Find(soup.title_spans, job_idx)
        loc_elem   == Find(soup.location_spans, job_idx)
        dept_elem  == Find(soup.department_spans, job_idx)
    IN  IF job_idx \in soup.raising THEN Skip
        ELSE IF title_elem = None \/ GetText(title_elem[1]) = <<>> THEN Skip
        ELSE LET title      == GetText(title_elem[1])
                 link       == DETAIL_URL \o element.id
                 location   == IF loc_elem # None THEN GetText(loc_elem[1]) ELSE IFAD
                 department == IF dept_elem # None THEN GetText(dept_elem[1]) ELSE <<>>
                 job_data   == [job_id      |-> element.id,
                                title       |-> title,
                                link        |-> link,
                                location    |-> location,
                                department  |-> department,
                                description |-> BuildDescription(title, location, department)]
             IN  IF job_data.title # <<>> /\ job_data.link # <<>>
                 THEN Accept(job_data) ELSE Skip

\* The link of an anchor element of Strategy 2: None when no href is found.
ResolveLink(element) ==
    IF element.name = "a" /\ element.href # None /\ element.href[1] # <<>>
    THEN Some(ResolveHref(element.href[1]))
    ELSE IF element.nested_href # None
    THEN Some(ResolveHref(element.nested_href[1]))
    ELSE IF element.row # None /\ element.row[1] # None
    THEN Some(ResolveRowHref(element.row[1][1]))
    ELSE None

\* any(keyword in title.lower() for keyword in skip_keywords)
IsGeneric(title) ==
    \E k \in 1..Len(skip_keywords) : Contains(Lower(title), skip_keywords[k])

\* One iteration of the loop on an anchor element of Strategy 2.  find_all('a')
\* returns anchors only, so element.name is 'a' in every candidate and the
\* title is the anchor's own text.
ProcessAnchor(element) ==
    LET link  == ResolveLink(element)
        title == GetText(element.text)
    IN  IF element.raises THEN Skip
        ELSE IF link = None THEN Skip
        ELSE IF title = <<>> \/ Len(title) < MIN_TITLE_LEN THEN Skip
        ELSE IF IsGeneric(title) THEN Skip
        ELSE LET location   == IF element.location # None
                               THEN GetText(element.location[1]) ELSE IFAD
                 department == IF element.department # None
                               THEN GetText(element.department[1]) ELSE <<>>
                 job_data   == [link        |-> link[1],
                                title       |-> title,
                                location    |-> location,
                                department  |-> department,
                                description |-> BuildDescription(title, location, department)]
             IN  IF job_data.title # <<>> /\ job_data.link # <<>>
                 THEN Accept(job_data) ELSE Skip

\* isinstance(element, dict)
IsDict(element) == "index" \in DOMAIN element

\* The body of the loop over job_elements[:50].
ProcessElement(element, soup) ==
    IF IsDict(element) THEN ProcessIndexed(element, soup) ELSE ProcessAnchor(element)

\* job_elements without the [:50] slice.
Uncapped(elements) == elements

\* job_elements[:50]
Capped(elements) ==
    SubSeq(elements, 1, IF Len(elements) < MAX_ELEMENTS THEN Len(elements) ELSE MAX_ELEMENTS)

\* The items generate_rss_feed adds to the channel, one per job.
FeedItem(job) ==
    [title       |-> Get(job, "title", UNTITLED),
     link        |-> Get(job, "link", <<>>),
     description |-> Get(job, "description", <<>>),
     guid        |-> Get(job, "link", <<>>),
     isPermaLink |-> "true"]

\* The items added in reverse order.
FeedItemsReversed(job_list) ==
    [k \in 1..Len(job_list) |-> FeedItem(job_list[Len(job_list) + 1 - k])]

FeedItems(job_list) == [k \in 1..Len(job_list) |-> FeedItem(job_list[k])]

(* ------------------------------ the pages ----------------------------- *)

T_Agronomist == <<"A","g","r","o","n","o","m","i","s","t">>

T_Blank == <<" "," ">>

T_Home == <<"H","o","m","e">>

T_Jobs == <<"J","o","b","s">>

T_AboutIFAD == <<"A","b","o","u","t"," ","I","F","A","D">>

T_Driver == <<" ","D","r","i","v","e","r","\n">>

T_Rome == <<"R","o","m","e">>

T_Finance == <<"F","i","n","a","n","c","e">>

H_Absolute == <<"h","t","t","p","s",":","/","/","x",".","o","r","g","/","j">>

H_Relative == <<"/","c","a","r","e","e","r","s","/","1","2","3">>

H_Opaque == <<"H","R","S","_","H","R","A","M","_","F","L">>

DIGITS == <<"0","1","2","3","4","5","6","7","8","9">>

\* The decimal numeral of n, the text of a job-opening-id span.
RECURSIVE Numeral(_)
Numeral(n) ==
    IF n < 10 THEN <<DIGITS[n + 1]>>
    ELSE Numeral(n \div 10) \o <<DIGITS[(n % 10) + 1]>>

\* The spans of one PeopleSoft row: its title, location and department spans
\* (None when the page has no such span) and whether reading them raises.
DefaultRow ==
    [title |-> Some(T_Agronomist), location |-> None, department |-> None,
     raises |-> FALSE]

NoRow == [title |-> None, location |-> None, department |-> None, raises |-> FALSE]

RowKinds ==
    {DefaultRow, NoRow}
    \cup {[DefaultRow EXCEPT !.title = Some(t)] : t \in {T_Blank, T_Home, T_Driver}}
    \cup {[DefaultRow EXCEPT !.location = Some(T_Rome), !.department = Some(T_Finance)],
          [DefaultRow EXCEPT !.location = Some(<<>>), !.department = Some(<<>>)],
          [DefaultRow EXCEPT !.location = Some(IFAD), !.department = Some(T_Finance)],
          [DefaultRow EXCEPT !.raises = TRUE]}

\* What a page holds at one suffix: the row's spans, with or without the
\* job-opening-id span.
RowChoices ==
    {[has_id |-> TRUE, spans |-> r] : r \in RowKinds}
    \cup {[has_id |-> FALSE, spans |-> DefaultRow]}

\* The suffixes of rows, in document order, that carry a job-opening-id span.
RECURSIVE IdSuffixes(_, _, _)
IdSuffixes(rows, n, last) ==
    IF n > last THEN <<>>
    ELSE (IF rows[n].has_id THEN <<n>> ELSE <<>>) \o IdSuffixes(rows, n + 1, last)

\* A title anchor of Strategy 2: its own href attribute, its text, the href of
\* the first anchor nested in it, the nearest ancestor row (None when there is
\* none, else the href of the row's first anchor or None), the location and
\* department elements found in it, and whether reading it raises.
DefaultAnchor ==
    [name |-> "a", href |-> Some(H_Opaque), text |-> T_Agronomist,
     nested_href |-> None, row |-> None, location |-> None, department |-> None,
     raises |-> FALSE]

Hrefs == {H_Absolute, H_Relative, H_Opaque}

AnchorKinds ==
    {[DefaultAnchor EXCEPT !.href = Some(h)] : h \in Hrefs}
    \cup {[DefaultAnchor EXCEPT !.href = None, !.nested_href = Some(h)] : h \in Hrefs}
    \cup {[DefaultAnchor EXCEPT !.href = None, !.row = r] :
             r \in {None, Some(None)} \cup {Some(Some(h)) : h \in Hrefs}}
    \cup {[DefaultAnchor EXCEPT !.href = Some(<<>>)]}
    \cup {[DefaultAnchor EXCEPT !.text = t] :
             t \in {T_Blank, T_Home, T_Jobs, T_AboutIFAD, T_Driver}}
    \cup {[DefaultAnchor EXCEPT !.location = Some(T_Rome)],
          [DefaultAnchor EXCEPT !.location = Some(T_Rome), !.department = Some(T_Finance)],
          [DefaultAnchor EXCEPT !.location = Some(<<>>), !.department = Some(<<>>)],
          [DefaultAnchor EXCEPT !.location = Some(IFAD), !.department = Some(T_Finance)],
          [DefaultAnchor EXCEPT !.raises = TRUE]}

\* The parsed page: the job-opening-id spans in document order (each with the
\* numeric suffix of its id and its text), the title, location and department
\* spans by suffix, the suffixes whose spans raise when read, and the title
\* anchors in document order.
MakeSoup(rows, last, anchors) ==
    LET suffixes == IdSuffixes(rows, 0, last)
    IN  [job_id_spans     |-> [k \in 1..Len(suffixes) |->
                                  [suffix |-> suffixes[k],
                                   text   |-> Numeral(7000 + suffixes[k])]],
         title_spans      |-> [n \in 0..last |-> rows[n].spans.title],
         location_spans   |-> [n \in 0..last |-> rows[n].spans.location],
         department_spans |-> [n \in 0..last |-> rows[n].spans.department],
         raising          |-> {n \in 0..last : rows[n].spans.raises},
         job_links        |-> anchors]

NoRows == [n \in 0..MaxSuffix |-> [has_id |-> FALSE, spans |-> NoRow]]

\* Pages of PeopleSoft rows at suffixes 0..MaxSuffix and no title anchor.
IndexedPages ==
    {MakeSoup(rows, MaxSuffix, <<>>) : rows \in [0..MaxSuffix -> RowChoices]}

\* Pages of up to MaxAnchors title anchors and no job-opening-id span.
AnchorPages ==
    {MakeSoup(NoRows, MaxSuffix, anchors) :
        anchors \in UNION {[1..n -> AnchorKinds] : n \in 0..MaxAnchors}}

\* Pages that hold job-opening-id spans and title anchors.
MixedPages ==
    {MakeSoup(rows, MaxSuffix, anchors) :
        rows \in [0..MaxSuffix -> {[has_id |-> TRUE, spans |-> NoRow],
                                   [has_id |-> TRUE, spans |-> DefaultRow],
                                   [has_id |-> FALSE, spans |-> NoRow]}],
        anchors \in {<<DefaultAnchor>>, <<[DefaultAnchor EXCEPT !.text = T_Home]>>}}

\* The sizes of the large pages, around the cap.
LargeSizes == (MAX_ELEMENTS - 1)..(MAX_ELEMENTS + MaxOver)

\* The positions (from 0) at which a large page may hold one odd candidate;
\* -1 is no odd candidate.
OddPositions == {-1, 3, MAX_ELEMENTS - 1, MAX_ELEMENTS}

\* Large pages of rows at suffixes 0..n-1, one of which may lack its title or
\* raise when read.
LargeIndexedPages ==
    {MakeSoup([k \in 0..(n - 1) |->
                  [has_id |-> TRUE, spans |-> IF k = odd THEN r ELSE DefaultRow]],
              n - 1, <<>>) :
        n \in LargeSizes, odd \in OddPositions,
        r \in {NoRow, [DefaultRow EXCEPT !.raises = TRUE]}}

\* Large pages of n title anchors with distinct hrefs, one of which may have a
\* generic title or raise when read.
LargeAnchorPages ==
    {MakeSoup(NoRows, MaxSuffix,
              [k \in 1..n |->
                  IF k - 1 = odd THEN a
                  ELSE [DefaultAnchor EXCEPT !.href = Some(H_Opaque \o Numeral(k))]]) :
        n \in LargeSizes, odd \in OddPositions,
        a \in {[DefaultAnchor EXCEPT !.text = T_Home],
               [DefaultAnchor EXCEPT !.raises = TRUE]}}

Pages ==
    IndexedPages \cup AnchorPages \cup MixedPages
    \cup LargeIndexedPages \cup LargeAnchorPages

(* ------------------------------ the run ------------------------------- *)

VARIABLES
    pc,               \* where main() is
    page_source,      \* the parsed page the driver renders
    job_id_elements,  \* Strategy 1's find_all result
    job_links,        \* Strategy 2's find_all result; None while it has not run
    job_elements,     \* the candidates of the winning strategy
    idx,              \* the loop's position in job_elements[:50]
    jobs,             \* the records accepted so far
    printed,          \* the outcome messages printed so far
    feed_file         \* the items of the feed file; None while it is not written

vars ==
    <<pc, page_source, job_id_elements, job_links, job_elements, idx, jobs,
      printed, feed_file>>

\* No handler around the scrape: the exception leaves main().
ScrapeErrorPropagates == "crashed"

\* The handler of the try block around the scrape: the error is printed and
\* scrape_ifad_jobs returns the jobs it holds.
ScrapeErrorTarget == "returned"

\* The feed generated whatever jobs holds.
AlwaysGenerate(job_list) == TRUE

\* if jobs:
ShouldGenerate(job_list) == job_list # <<>>

\* Whether processing the element raises inside the loop's try block: reading
\* a malformed fragment raises before the record is built and appended.
Raises(element, soup) ==
    IF IsDict(element) THEN element.index \in soup.raising ELSE element.raises

\* A loop without its own try block: an element that raises ends the loop in
\* the handler of the outer try block.
LoopStepAbort(element, soup, job_list, position) ==
    LET result == ProcessElement(element, soup)
    IN  IF Raises(element, soup)
        THEN [jobs |-> job_list, idx |-> position, pc |-> "returned"]
        ELSE [jobs |-> IF result.accepted THEN Append(job_list, result.job) ELSE job_list,
              idx  |-> position + 1,
              pc   |-> "loop"]

\* The state after one loop iteration: the record is appended when the element
\* is accepted; an element that raised or was rejected is passed over.
LoopStep(element, soup, job_list, position) ==
    LET result == ProcessElement(element, soup)
    IN  [jobs |-> IF result.accepted THEN Append(job_list, result.job) ELSE job_list,
         idx  |-> position + 1,
         pc   |-> "loop"]

\* The dicts Strategy 1 builds from the job-opening-id spans.
IndexedElements(spans) ==
    [k \in 1..Len(spans) |-> [index |-> k - 1, id |-> GetText(spans[k].text)]]

Init ==
    /\ pc = "main"
    /\ page_source \in Pages
    /\ job_id_elements = <<>>
    /\ job_links = None
    /\ job_elements = <<>>
    /\ idx = 0
    /\ jobs = <<>>
    /\ printed = {}
    /\ feed_file = None

\* driver = setup_driver()
SetupDriver ==
    /\ pc = "main"
    /\ pc' = "get"
    /\ UNCHANGED <<page_source, job_id_elements, job_links, job_elements, idx, jobs,
                   printed, feed_file>>

\* setup_driver() raises: it is called outside the try block, so the
\* exception leaves main().
SetupDriverFails ==
    /\ pc = "main"
    /\ pc' = "crashed"
    /\ UNCHANGED <<page_source, job_id_elements, job_links, job_elements, idx, jobs,
                   printed, feed_file>>

\* driver.get(url), the waits and the parse succeed.
LoadPage ==
    /\ pc = "get"
    /\ pc' = "strategy1"
    /\ UNCHANGED <<page_source, job_id_elements, job_links, job_elements, idx, jobs,
                   printed, feed_file>>

\* driver.get(url) raises (render timeout, network failure).
LoadPageFails ==
    /\ pc = "get"
    /\ printed' = printed \cup {"Error during scraping"}
    /\ pc' = ScrapeErrorTarget
    /\ UNCHANGED <<page_source, job_id_elements, job_links, job_elements, idx, jobs,
                   feed_file>>

\* Strategy 1: the job-opening-id spans become dict elements.
Strategy1 ==
    /\ pc = "strategy1"
    /\ job_id_elements' = page_source.job_id_spans
    /\ job_elements' = IF job_id_elements' # <<>>
                       THEN IndexedElements(job_id_elements') ELSE <<>>
    /\ pc' = "strategy2"
    /\ UNCHANGED <<page_source, job_links, idx, jobs, printed, feed_file>>

\* Strategy 2: the title anchors, looked for when job_elements is empty.
Strategy2 ==
    /\ pc = "strategy2"
    /\ IF Strategy2Runs(job_elements)
       THEN /\ job_links' = Some(page_source.job_links)
            /\ job_elements' = IF page_source.job_links # <<>>
                               THEN page_source.job_links ELSE job_elements
       ELSE UNCHANGED <<job_links, job_elements>>
    /\ pc' = "loop"
    /\ UNCHANGED <<page_source, job_id_elements, idx, jobs, printed, feed_file>>

\* One iteration of the loop over job_elements[:50].
LoopBody ==
    /\ pc = "loop"
    /\ idx < Len(Capped(job_elements))
    /\ LET next == LoopStep(Capped(job_elements)[idx + 1], page_source, jobs, idx)
       IN  /\ jobs' = next.jobs
           /\ idx' = next.idx
           /\ pc' = next.pc
    /\ UNCHANGED <<page_source, job_id_elements, job_links, job_elements, printed,
                   feed_file>>

\* The loop is over: the count is printed, the driver quits, jobs is returned.
LoopEnd ==
    /\ pc = "loop"
    /\ idx >= Len(Capped(job_elements))
    /\ printed' = printed \cup {"Successfully scraped"}
    /\ pc' = "returned"
    /\ UNCHANGED <<page_source, job_id_elements, job_links, job_elements, idx, jobs,
                   feed_file>>

\* main(): jobs is non-empty, the feed is generated and written.
MainGenerate ==
    /\ pc = "returned"
    /\ ShouldGenerate(jobs)
    /\ feed_file' = Some(FeedItems(jobs))
    /\ printed' = printed \cup {"RSS feed generated", "Scraping completed successfully"}
    /\ pc' = "done"
    /\ UNCHANGED <<page_source, job_id_elements, job_links, job_elements, idx, jobs>>

\* main(): jobs is empty, the soft failure is reported and no feed is written.
MainNoJobs ==
    /\ pc = "returned"
    /\ ~ShouldGenerate(jobs)
    /\ printed' = printed \cup {"No jobs found"}
    /\ pc' = "done"
    /\ UNCHANGED <<page_source, job_id_elements, job_links, job_elements, idx, jobs,
                   feed_file>>

Next ==
    \/ SetupDriver
    \/ SetupDriverFails
    \/ LoadPage
    \/ LoadPageFails
    \/ Strategy1
    \/ Strategy2
    \/ LoopBody
    \/ LoopEnd
    \/ MainGenerate
    \/ MainNoJobs

Spec == Init /\ [][Next]_vars

(* ------------------------------ the claims ---------------------------- *)

\* driver.get raised in this run.
GetFailed == "Error during scraping" \in printed

\* The scrape ran its loop to the end and main() finished.
Finished == pc = "done" /\ "Successfully scraped" \in printed

\* The loop is about to process a candidate.
AtCandidate == pc = "loop" /\ idx < Len(Capped(job_elements))

\* The candidate the loop is about to process.
Candidate == Capped(job_elements)[idx + 1]

\* The step appends one record to jobs.
Appends == Len(jobs') = Len(jobs) + 1 /\ SubSeq(jobs', 1, Len(jobs)) = jobs

\* The record the step appended.
Appended == jobs'[Len(jobs')]

\* C1: every accepted record's title is non-empty, has at least 5 characters
\* and contains no stoplist term, case-insensitively, whichever strategy
\* produced the record.
C1_AcceptedTitlesValid ==
    \A k \in 1..Len(jobs) :
        /\ jobs[k].title # <<>>
        /\ Len(jobs[k].title) >= 5
        /\ \A w \in 1..Len(skip_keywords) :
               ~Contains(Lower(jobs[k].title), skip_keywords[w])

\* No job-opening-id span of the page has a non-empty title span, at its
\* position or at its suffix.
NoIndexedTitle ==
    \A k \in 1..Len(job_id_elements) :
        \A n \in {k - 1, job_id_elements[k].suffix} :
            LET title_elem == Find(page_source.title_spans, n)
            IN  title_elem = None \/ GetText(title_elem[1]) = <<>>

\* C2: when Strategy 1 matches job-opening-id spans but none has a non-empty
\* title, so that Strategy 1 contributes no record, Strategy 2 is still
\* attempted on the page: its title anchors, when the page has any, are looked
\* for.
C2_FallsThroughToStrategy2 ==
    (/\ pc \in {"loop", "returned", "done"}
     /\ job_id_elements # <<>>
     /\ NoIndexedTitle
     /\ page_source.job_links # <<>>)
        => job_links # None

\* The candidates of the winning strategy that yield a record when processed.
ValidCandidates ==
    {k \in 1..Len(job_elements) : ProcessElement(job_elements[k], page_source).accepted}

\* C3 as stated: with more than 50 valid candidates from the winning strategy
\* exactly 50 records are emitted, and the list never exceeds 50.
C3_FiftyOfMoreThanFiftyValid ==
    /\ Len(jobs) <= 50
    /\ (Finished /\ Cardinality(ValidCandidates) > 50) => Len(jobs) = 50

\* C3 amended, the state part: the list never exceeds 50, only the first 50
\* candidates are processed, and when the first 50 candidates of the winning
\* strategy are all valid exactly 50 records are emitted.
C3_CapState ==
    /\ Len(jobs) <= 50
    /\ idx <= 50
    /\ (Finished /\ Len(job_elements) >= 50 /\ (1..50) \subseteq ValidCandidates)
           => Len(jobs) = 50

\* C3 amended, the order part: jobs changes only by appending the record of
\* the candidate at the loop's position, and the position then moves on.
C3_OrderStep ==
    jobs' # jobs =>
        /\ AtCandidate
        /\ idx' = idx + 1
        /\ Appends
        /\ Appended = ProcessElement(job_elements[idx + 1], page_source).job

\* C3 amended: at most 50 records, 50 when the first 50 candidates are all
\* valid, in discovery order.
C3_CappedInDiscoveryOrder == [] C3_CapState /\ [][C3_OrderStep]_vars

\* C3: a finished run over more than 50 candidates that emitted 50 records.
C3_Witness == Finished /\ Len(job_elements) > 50 /\ Len(jobs) = 50

\* C4: the feed file is written only when at least one record was accepted;
\* a run whose record list is empty writes no feed.
C4_NoFeedWithoutRecords ==
    /\ feed_file # None => (jobs # <<>> /\ pc = "done")
    /\ (pc = "done" /\ jobs = <<>>) =>
           (feed_file = None /\ "RSS feed generated" \notin printed)

\* C4: a finished run that had candidates, accepted none and wrote no feed.
C4_Witness == Finished /\ job_elements # <<>> /\ jobs = <<>> /\ feed_file = None

\* C5 as stated: a failure of driver.get ends the run as a hard failure; the
\* run does not go on to its normal completion and does not report the soft
\* 'no jobs found' outcome.
C5_GetFailureIsHard ==
    GetFailed => (pc \notin {"returned", "done"} /\ "No jobs found" \notin printed)

\* C5 amended: a failure of driver.get is caught in scrape_ifad_jobs, which
\* returns the empty list; main() completes, reports 'no jobs found' and
\* writes no feed.
C5_GetFailureIsSoft ==
    GetFailed =>
        /\ pc \in {"returned", "done"}
        /\ jobs = <<>>
        /\ feed_file = None
        /\ pc = "done" => "No jobs found" \in printed

\* C5: a run in which driver.get raised and main() reported 'no jobs found'.
C5_Witness == GetFailed /\ pc = "done" /\ "No jobs found" \in printed

\* C6, one step: the records accepted so far stay as they are, and a
\* candidate that raises adds no record while the loop moves to the next one.
C6_FailureStep ==
    /\ Len(jobs) <= Len(jobs') /\ SubSeq(jobs', 1, Len(jobs)) = jobs
    /\ (AtCandidate /\ Raises(Candidate, page_source)) =>
           (jobs' = jobs /\ idx' = idx + 1 /\ pc' = "loop")

\* C6, the end: the loop ends only after every candidate within the cap.
C6_AllProcessed ==
    (pc \in {"returned", "done"} /\ ~GetFailed) => idx = Len(Capped(job_elements))

ClaimedDescription(job, has_location) ==
    job.title
    \o (IF has_location THEN SEPARATOR \o LOCATION_LABEL \o job.location ELSE <<>>)
    \o (IF job.department # <<>>
        THEN SEPARATOR \o DEPARTMENT_LABEL \o job.department ELSE <<>>)

\* C7 as stated: the description is the title, then the location part if and
\* only if the location differs from 'IFAD', then the department part if and
\* only if the department is non-empty, for every location, the empty one too.
C7_LocationUnlessDefault ==
    \A k \in 1..Len(jobs) :
        jobs[k].description = ClaimedDescription(jobs[k], jobs[k].location # IFAD)

\* C7 amended: the location part is present if and only if the location is
\* non-empty and differs from 'IFAD'.
C7_LocationUnlessDefaultOrEmpty ==
    \A k \in 1..Len(jobs) :
        jobs[k].description =
            ClaimedDescription(jobs[k], jobs[k].location # <<>> /\ jobs[k].location # IFAD)

\* C7: records with an empty location and with a location and a department.
C7_Witness ==
    \E j, k \in 1..Len(jobs) :
        /\ jobs[j].location = <<>> /\ jobs[j].description = jobs[j].title
        /\ jobs[k].location = T_Rome /\ jobs[k].department = T_Finance

ObtainedHref(element) ==
    IF element.href # None /\ element.href[1] # <<>> THEN element.href
    ELSE IF element.nested_href # None THEN element.nested_href
    ELSE IF element.row # None THEN element.row[1]
    ELSE None

\* C9, one step: in Strategy 2 the link of a record is its href resolved by the
\* three-way rule on every branch that obtains an href, and a candidate with
\* no href yields no record.
C9_ThreeWayStep ==
    (AtCandidate /\ ~IsDict(Candidate)) =>
        LET href == ObtainedHref(Candidate)
        IN  /\ href = None => jobs' = jobs
            /\ (href # None /\ jobs' # jobs) => Appended.link = ResolveHref(href[1])

\* C9: every step of the loop on an anchor candidate resolves the link by the
\* three-way rule.
C9_ThreeWayOnEveryBranch == [][C9_ThreeWayStep]_vars

\* C10, one step: in Strategy 1 the record of the job-opening-id span with suffix N has
\* the title, location and department of the spans with suffix N.
C10_JoinStep ==
    (AtCandidate /\ IsDict(Candidate) /\ jobs' # jobs) =>
        LET N          == job_id_elements[idx + 1].suffix
            title_elem == Find(page_source.title_spans, N)
            loc_elem   == Find(page_source.location_spans, N)
            dept_elem  == Find(page_source.department_spans, N)
        IN  /\ title_elem # None
            /\ Appended.title = GetText(title_elem[1])
            /\ Appended.location = (IF loc_elem # None THEN GetText(loc_elem[1]) ELSE IFAD)
            /\ Appended.department = (IF dept_elem # None THEN GetText(dept_elem[1]) ELSE <<>>)

\* C10: every step of the loop on a Strategy 1 candidate joins the record's
\* fields by the suffix of the job-opening-id span.
C10_JoinedBySuffix == [][C10_JoinStep]_vars

====
